---- MODULE Spec2Model ----
(***************************************************************************)
(* Position lifecycle of the Zerodha trading bot: the scheduler's tick     *)
(* (TradingApp.scan_and_trade), the exit monitor (Trader), the ledger      *)
(* (Database) and the dashboard's manual close, which runs in a separate   *)
(* process against the same trades.db.                                     *)
(*                                                                         *)
(* Prices are integers (rupees); the sampled entry prices are multiples of *)
(* 100, so the 3 % target / stop arithmetic of the source is exact.        *)
(* A nullable column is a set: {} is NULL, {v} is the value v.             *)
(*                                                                         *)
(* Spec         the whole application: ticks, entries, monitor, dashboard  *)
(* MonitorSpec  the exit monitor over a ledger of several open positions   *)
(* TraderSpec   direct calls of execute_trade and exit_trade, one at a time*)
(* ScannerSpec  calculate_indicators over frames of daily bars             *)
(* ScanSpec     the two scans of a tick over a catalog of three instruments*)
(* DriverSpec   the scheduler's runs alone, counted; FairDriverSpec adds   *)
(*              the fairness of the trigger and of the thread              *)
(* SteadySpec   the monitor when no call fails and every price triggers;   *)
(*              FairSteadySpec adds the same fairness                      *)
(* RepeatSpec   ticks whose breakout scan keeps returning one instrument   *)
(* HistorySpec  the default date range of get_historical_data, unscaled    *)
(***************************************************************************)
EXTENDS Integers, Sequences, FiniteSets

\* ---- bounds of the model ------------------------------------------------
MaxTrades == 1
MaxExitOrders == 2
MaxCandidates == 2
MaxLedger == 2
\* the scanner's windows, scaled down: RollingWindow stands for the 125 days of
\* the high, low and volume windows, RsiWindow for the 14 days of the RSI
RollingWindow == 3
RsiWindow == 2
\* the instruments whose fetch or computation fails during one scan
MaxFailures == 1
\* the due runs of the job the driver specification counts
MaxTicks == 2

\* ---- program constants ---------------------------------------------------
MaxPositions == 10
BreakoutPermille == 1
BreakdownPermille == 10
TakeProfitPct == 3
StopLossPct == 3
\* general.auto_close_at_market_close of the default configuration; no
\* statement of the program reads it
auto_close_at_market_close == TRUE

\* ---- sampled inputs of the external gateway -----------------------------
Symbols == {"A", "B"}
Closes == {100}
Cash == {50000, 200000}
Prices == {97, 100, 103}
Counts == (MaxPositions - 2)..(MaxPositions + 1)
Days == {1}

Null == {}
Some(v) == {v}

Candidate == [symbol : Symbols, close : Closes]

RECURSIVE DistinctSymbols(_)
DistinctSymbols(s) ==
  IF Len(s) <= 1 THEN TRUE
  ELSE /\ \A i \in 2..Len(s) : s[i].symbol # s[1].symbol
       /\ DistinctSymbols(Tail(s))

\* a scan visits every instrument once: a result lists a symbol at most once
CandidateLists ==
  {s \in UNION {[1..n -> Candidate] : n \in 0..MaxCandidates} : DistinctSymbols(s)}

VARIABLES
  trades,             \* the trades table, in insertion order
  daily_summary,      \* the daily_summary table: date -> NULL or the row
  today,              \* the calendar date
  is_market_open,     \* TradingApp.is_market_open
  exit_orders,        \* broker: opposing market orders accepted, per trade id
  running,            \* scheduler: instances of the scan_and_trade job in progress
  ticks,              \* scheduler: the due runs of the job the driver has counted
  pc,                 \* position of the scheduler thread inside scan_and_trade
  start_count,        \* open-position count read at the start of the tick
  open_positions_count, \* the running count of scan_and_trade
  available_cash,     \* cash read at the start of the tick
  breakout_stocks,    \* breakout candidates still to be entered
  breakdown_stocks,   \* breakdown candidates still to be entered
  entry_orders,       \* broker: entry orders submitted during the tick, accepted or not
  monitored,          \* check_exit_conditions was called in the tick
  open_trades,        \* check_exit_conditions: open trades still to examine
  ltp_data,           \* check_exit_conditions: the batched last-price response
  m_id,               \* Trader.exit_trade: trade_id
  m_trade,            \* Trader.exit_trade: the row read by get_trade
  m_reason,           \* Trader.exit_trade: exit_reason
  m_result,           \* check_exit_conditions: how the previous pass of its loop ended
  dpc,                \* position of the dashboard inside its exit_trade
  d_id,               \* dashboard: the trade id of the clicked button
  d_trade,            \* dashboard exit_trade: the row read by get_trade
  returned,           \* a direct call of the Trader: NULL, or the value it returned
  df,                 \* scanner: the daily bars of one instrument, oldest first
  indicators,         \* scanner: NULL, or the frame calculate_indicators returned
  market,             \* gateway: the daily bars it holds for each instrument
  to_scan,            \* scan: the instruments the loop has still to visit
  found,              \* scan: the local list of candidates (appended in loop order)
  unavailable         \* per scan: the instruments whose fetch or computation failed

ledger == <<trades, daily_summary>>
tickvars == <<running, ticks, pc, start_count, open_positions_count, available_cash,
              breakout_stocks, breakdown_stocks, entry_orders, monitored,
              open_trades, ltp_data, m_id, m_trade, m_reason, m_result>>
dashvars == <<dpc, d_id, d_trade>>
callvars == <<returned>>
scanvars == <<df, indicators, market, to_scan, found, unavailable>>
vars == <<trades, daily_summary, today, is_market_open, exit_orders,
          tickvars, dashvars, callvars, scanvars>>

\* variant: the target of a SELL is computed like that of a BUY
take_profit_price_SameForSell(trade_type, price, take_profit_pct) ==
  (price * (100 + take_profit_pct)) \div 100

\* ---- Trader.execute_trade: target and stop prices -----------------------
take_profit_price(trade_type, price, take_profit_pct) ==
  IF trade_type = "BUY"
  THEN (price * (100 + take_profit_pct)) \div 100
  ELSE (price * (100 - take_profit_pct)) \div 100

stop_loss_price(trade_type, price, stop_loss_pct) ==
  IF trade_type = "BUY"
  THEN (price * (100 - stop_loss_pct)) \div 100
  ELSE (price * (100 + stop_loss_pct)) \div 100

\* ---- TradingApp.scan_and_trade: sizing and the cap -----------------------
\* variant: the quotient is rounded up
Quantity_RoundsUp(cash, permille, close) ==
  (cash * permille + 1000 * close - 1) \div (1000 * close)

\* int(available_cash * pct / close), pct given in thousandths
Quantity(cash, permille, close) == (cash * permille) \div (1000 * close)

\* the early return of line 104
AtCap(count) == count >= MaxPositions

\* variant: the loops stop only once the count is above the cap
CapReached_OffByOne(count) == count > MaxPositions

\* the guards of the two entry loops (lines 117/122 and 136/141)
CapReached(count) == count >= MaxPositions

\* ---- Database ------------------------------------------------------------
insert_trade(ts, order_id, symbol, trade_type, quantity, entry_price, tp, sl, status) ==
  Append(ts, [id |-> order_id, symbol |-> symbol, trade_type |-> trade_type,
              quantity |-> quantity, entry_price |-> entry_price,
              take_profit_price |-> tp, stop_loss_price |-> sl,
              exit_price |-> Null, exit_time |-> Null, exit_reason |-> Null,
              pnl |-> Null, status |-> status])

\* variant: the UPDATE leaves the status column out
update_trade_row_NoStatus(ts, trade_id, exit_price, exit_time, exit_reason, pnl, status) ==
  [i \in DOMAIN ts |->
     IF ts[i].id = trade_id
     THEN [ts[i] EXCEPT !.exit_price = Some(exit_price),
                        !.exit_time = Some(exit_time),
                        !.exit_reason = Some(exit_reason),
                        !.pnl = Some(pnl)]
     ELSE ts[i]]

\* variant: the UPDATE also moves the stop to the exit price
update_trade_row_MovesStop(ts, trade_id, exit_price, exit_time, exit_reason, pnl, status) ==
  [i \in DOMAIN ts |->
     IF ts[i].id = trade_id
     THEN [ts[i] EXCEPT !.exit_price = Some(exit_price),
                        !.exit_time = Some(exit_time),
                        !.exit_reason = Some(exit_reason),
                        !.pnl = Some(pnl),
                        !.stop_loss_price = exit_price,
                        !.status = status]
     ELSE ts[i]]

\* UPDATE trades SET exit_price, exit_time, exit_reason, pnl, status WHERE id = ?
update_trade_row(ts, trade_id, exit_price, exit_time, exit_reason, pnl, status) ==
  [i \in DOMAIN ts |->
     IF ts[i].id = trade_id
     THEN [ts[i] EXCEPT !.exit_price = Some(exit_price),
                        !.exit_time = Some(exit_time),
                        !.exit_reason = Some(exit_reason),
                        !.pnl = Some(pnl),
                        !.status = status]
     ELSE ts[i]]

\* variant: the SELECT has no WHERE clause and the first row is fetched
get_trade_AnyRow(ts, trade_id) ==
  IF ts = <<>> THEN {} ELSE {ts[1]}

\* SELECT * FROM trades WHERE id = ?, fetchone
get_trade(ts, trade_id) == {ts[i] : i \in {j \in DOMAIN ts : ts[j].id = trade_id}}

get_open_trades(ts) == SelectSeq(ts, LAMBDA t : t.status = "OPEN")

ValueOf(opt) == CHOOSE v \in opt : TRUE

ClosedOn(ts, day) ==
  SelectSeq(ts, LAMBDA t : t.status = "CLOSED" /\ t.exit_time = Some(day))

RECURSIVE SumPnl(_)
SumPnl(s) == IF s = <<>> THEN 0 ELSE ValueOf(Head(s).pnl) + SumPnl(Tail(s))

\* the aggregation and upsert of update_daily_summary for the date `day`
update_daily_summary(ts, ds, day) ==
  LET closed == ClosedOn(ts, day)
      row == [total_trades |-> Len(closed),
              winning_trades |-> Len(SelectSeq(closed, LAMBDA t : ValueOf(t.pnl) > 0)),
              losing_trades |-> Len(SelectSeq(closed, LAMBDA t : ValueOf(t.pnl) <= 0)),
              total_pnl |-> SumPnl(closed)]
  IN IF Len(closed) > 0 THEN [ds EXCEPT ![day] = Some(row)] ELSE ds

\* ---- P&L of a close (Trader.exit_trade and the dashboard's exit_trade) ---
Pnl(trade, current_price) ==
  IF trade.trade_type = "BUY"
  THEN (current_price - trade.entry_price) * trade.quantity
  ELSE (trade.entry_price - current_price) * trade.quantity

\* variant: the thresholds are compared strictly
ExitDecision_Strict(trade, current_price) ==
  IF trade.trade_type = "BUY"
  THEN IF current_price > trade.take_profit_price THEN "TARGET"
       ELSE IF current_price < trade.stop_loss_price THEN "STOPLOSS"
       ELSE "NONE"
  ELSE IF current_price < trade.take_profit_price THEN "TARGET"
       ELSE IF current_price > trade.stop_loss_price THEN "STOPLOSS"
       ELSE "NONE"

\* ---- Trader.check_exit_conditions: the decision for one open trade ------
ExitDecision(trade, current_price) ==
  IF trade.trade_type = "BUY"
  THEN IF current_price >= trade.take_profit_price THEN "TARGET"
       ELSE IF current_price <= trade.stop_loss_price THEN "STOPLOSS"
       ELSE "NONE"
  ELSE IF current_price <= trade.take_profit_price THEN "TARGET"
       ELSE IF current_price >= trade.stop_loss_price THEN "STOPLOSS"
       ELSE "NONE"

NoPrices == [s \in Symbols |-> Null]

\* the instrument catalog (self.instruments), in the order the gateway lists it
Instruments == <<"A", "B", "C">>

InstrumentSet == {Instruments[i] : i \in DOMAIN Instruments}

NoBars == [s \in InstrumentSet |-> <<>>]
NoneUnavailable == [kind \in {"breakouts", "breakdowns"} |-> {}]

\* the state after construction over a ledger `ts` of at most `n` trades,
\* with the bars `bars` in front of the scanner and the bars `data` at the
\* gateway
InitState(ts, n, bars, data) ==
  /\ trades = ts
  /\ daily_summary = [d \in Days |-> Null]
  /\ today = 1
  /\ is_market_open = FALSE
  /\ exit_orders = [i \in 1..n |-> 0]
  /\ running = 0
  /\ ticks = 0
  /\ pc = "idle"
  /\ start_count = Null
  /\ open_positions_count = 0
  /\ available_cash = 0
  /\ breakout_stocks = <<>>
  /\ breakdown_stocks = <<>>
  /\ entry_orders = <<>>
  /\ monitored = FALSE
  /\ open_trades = <<>>
  /\ ltp_data = NoPrices
  /\ m_id = 0
  /\ m_trade = Null
  /\ m_reason = "NONE"
  /\ m_result = "none"
  /\ dpc = "idle"
  /\ d_id = 0
  /\ d_trade = Null
  /\ returned = Null
  /\ df = bars
  /\ indicators = Null
  /\ market = data
  /\ to_scan = <<>>
  /\ found = <<>>
  /\ unavailable = NoneUnavailable

Init == InitState(<<>>, MaxTrades, <<>>, NoBars)

\* variant: the flag is set when the market opens and never cleared
check_market_status_NeverCleared(was_open, in_window) ==
  was_open \/ in_window

\* ---- TradingApp.check_market_status --------------------------------------
\* `in_window` is the outcome of the time-window and weekday test
check_market_status(was_open, in_window) ==
  IF in_window
  THEN (IF ~was_open THEN TRUE ELSE was_open)
  ELSE (IF was_open THEN FALSE ELSE was_open)

\* ---- Trader.execute_trade ------------------------------------------------
\* outcome: "ok", "rejected" (place_order raised) or "insert_failed"
\* (insert_trade logged its error and returned False)
execute_trade(ts, symbol, trade_type, quantity, price, tp_pct, sl_pct, outcome) ==
  IF outcome = "ok"
  THEN insert_trade(ts, Len(ts) + 1, symbol, trade_type, quantity, price,
                    take_profit_price(trade_type, price, tp_pct),
                    stop_loss_price(trade_type, price, sl_pct), "OPEN")
  ELSE ts

\* ---- Database.update_trade: the UPDATE, then update_daily_summary --------
\* outcome: "ok", "update_failed" (nothing written) or "summary_failed"
update_trade(ts, ds, day, trade_id, exit_price, exit_reason, pnl, outcome) ==
  IF outcome = "update_failed" THEN <<ts, ds>>
  ELSE LET ts2 == update_trade_row(ts, trade_id, exit_price, day, exit_reason,
                                   pnl, "CLOSED")
       IN IF outcome = "summary_failed" THEN <<ts2, ds>>
          ELSE <<ts2, update_daily_summary(ts2, ds, day)>>

SymbolsOf(rows) == {rows[i].symbol : i \in DOMAIN rows}

\* add_job is called without max_instances: the scheduler's default of 1
MaxInstances == 1

\* the state of the scheduler thread when scan_and_trade returns
EndTick ==
  /\ pc' = "idle"
  /\ entry_orders' = <<>>
  /\ open_positions_count' = 0
  /\ available_cash' = 0
  /\ breakout_stocks' = <<>>
  /\ breakdown_stocks' = <<>>
  /\ open_trades' = <<>>
  /\ ltp_data' = NoPrices
  /\ m_id' = 0
  /\ m_trade' = Null
  /\ m_reason' = "NONE"
  /\ m_result' = "none"

\* scan_and_trade returns after a step of its own: the instance is over
Return ==
  /\ EndTick
  /\ running' = running - 1

\* variant: the exception leaves scan_and_trade and the instance is never
\* released
Except_Escapes ==
  /\ EndTick
  /\ running' = MaxInstances

\* an exception of lines 92-95 is caught and logged (lines 158-159) and
\* scan_and_trade returns
Except ==
  /\ EndTick
  /\ running' = running

\* variant: a trade without a price ends the loop (break for continue)
Continue_Breaks(rest, result) ==
  IF rest = <<>> \/ result = "no_price"
  THEN /\ Return
  ELSE /\ pc' = "monitor"
       /\ open_trades' = rest
       /\ m_id' = 0
       /\ m_trade' = Null
       /\ m_reason' = "NONE"
       /\ m_result' = result
       /\ ltp_data' = [s \in Symbols |->
                         IF s \in SymbolsOf(rest) THEN ltp_data[s] ELSE Null]
       /\ UNCHANGED <<running, open_positions_count, available_cash,
                      breakout_stocks, breakdown_stocks, entry_orders>>

\* the loop of check_exit_conditions goes on with the trades in `rest`, the
\* pass just finished having ended as `result`
Continue(rest, result) ==
  IF rest = <<>>
  THEN /\ Return
  ELSE /\ pc' = "monitor"
       /\ open_trades' = rest
       /\ m_id' = 0
       /\ m_trade' = Null
       /\ m_reason' = "NONE"
       /\ m_result' = result
       /\ ltp_data' = [s \in Symbols |->
                         IF s \in SymbolsOf(rest) THEN ltp_data[s] ELSE Null]
       /\ UNCHANGED <<running, open_positions_count, available_cash,
                      breakout_stocks, breakdown_stocks, entry_orders>>

\* where scan_and_trade goes after the scans or after an entry
AfterBreakouts(bd, count) ==
  IF bd # <<>> /\ ~CapReached(count) THEN "breakdowns" ELSE "check"

AfterScan(bo, bd, count) ==
  IF bo # <<>> /\ ~CapReached(count) THEN "breakouts" ELSE AfterBreakouts(bd, count)

\* ---- the scheduler: the interval job of TradingApp.start -----------------

\* variant: the job is submitted whatever is running
CanSubmit_Unlimited(instances) == TRUE

\* a due run of the job is submitted unless max_instances instances are running
\* (the run is then skipped)
CanSubmit(instances) == instances < MaxInstances

\* ---- scan_and_trade up to the end of the scans ---------------------------
\* `windows`: the outcomes of the market-hours test; `snapshots`: whether the
\* calls of lines 92-95 succeed; `cashes`, `counts`: what they report;
\* `lists`: what the two scans return
scan_and_trade(windows, snapshots, cashes, counts, lists) ==
  /\ CanSubmit(running)
  /\ \E in_window \in windows, snapshot_ok \in snapshots :
       /\ is_market_open' = check_market_status(is_market_open, in_window)
       /\ monitored' = FALSE
       /\ UNCHANGED <<ledger, today, exit_orders, dashvars, callvars, scanvars>>
       /\ IF ~in_window
          THEN /\ start_count' = Null
               /\ EndTick
               /\ running' = running
          ELSE IF ~snapshot_ok
          THEN /\ start_count' = Null
               /\ Except
          ELSE \E cash \in cashes, count \in counts :
                 /\ start_count' = Some(count)
                 /\ IF AtCap(count)
                    THEN /\ EndTick
                         /\ running' = running
                    ELSE \E bo \in lists, bd \in lists :
                           /\ running' = running + 1
                           /\ pc' = AfterScan(bo, bd, count)
                           /\ open_positions_count' = count
                           /\ available_cash' = cash
                           /\ breakout_stocks' = bo
                           /\ breakdown_stocks' = bd
                           /\ UNCHANGED <<entry_orders, open_trades, ltp_data,
                                          m_id, m_trade, m_reason, m_result>>

TickStart ==
  /\ scan_and_trade(BOOLEAN, BOOLEAN, Cash, Counts, CandidateLists)
  /\ UNCHANGED ticks

EntryOutcomes == {"ok", "rejected", "insert_failed"}

\* one pass of the breakout loop (the ledger is bounded by the ids the
\* broker's book of exit orders was given in the initial state)
EnterBreakout ==
  /\ pc = "breakouts"
  /\ LET stock == Head(breakout_stocks)
         quantity == Quantity(available_cash, BreakoutPermille, stock.close)
     IN \E outcome \in EntryOutcomes :
          /\ outcome = "ok" => Len(trades) < Len(exit_orders)
          /\ trades' = execute_trade(trades, stock.symbol, "BUY", quantity,
                                     stock.close, TakeProfitPct, StopLossPct, outcome)
          /\ entry_orders' = Append(entry_orders,
               [symbol |-> stock.symbol, trade_type |-> "BUY", quantity |-> quantity,
                accepted |-> outcome # "rejected"])
  /\ open_positions_count' = open_positions_count + 1
  /\ breakout_stocks' = Tail(breakout_stocks)
  /\ pc' = IF Tail(breakout_stocks) # <<>> /\ ~CapReached(open_positions_count + 1)
           THEN "breakouts"
           ELSE AfterBreakouts(breakdown_stocks, open_positions_count + 1)
  /\ UNCHANGED <<daily_summary, today, is_market_open, exit_orders, start_count,
                 available_cash, breakdown_stocks, monitored, open_trades,
                 ltp_data, m_id, m_trade, m_reason, m_result, running,
                 dashvars, callvars, scanvars, ticks>>

\* one pass of the breakdown loop
EnterBreakdown ==
  /\ pc = "breakdowns"
  /\ LET stock == Head(breakdown_stocks)
         quantity == Quantity(available_cash, BreakdownPermille, stock.close)
     IN \E outcome \in EntryOutcomes :
          /\ outcome = "ok" => Len(trades) < Len(exit_orders)
          /\ trades' = execute_trade(trades, stock.symbol, "SELL", quantity,
                                     stock.close, TakeProfitPct, StopLossPct, outcome)
          /\ entry_orders' = Append(entry_orders,
               [symbol |-> stock.symbol, trade_type |-> "SELL", quantity |-> quantity,
                accepted |-> outcome # "rejected"])
  /\ open_positions_count' = open_positions_count + 1
  /\ breakdown_stocks' = Tail(breakdown_stocks)
  /\ pc' = IF Tail(breakdown_stocks) # <<>> /\ ~CapReached(open_positions_count + 1)
           THEN "breakdowns"
           ELSE "check"
  /\ UNCHANGED <<daily_summary, today, is_market_open, exit_orders, start_count,
                 available_cash, breakout_stocks, monitored, open_trades,
                 ltp_data, m_id, m_trade, m_reason, m_result, running,
                 dashvars, callvars, scanvars, ticks>>

\* ---- Trader.check_exit_conditions: open trades and the batched prices ----
\* the responses kite.ltp(symbols) can give: a price or nothing per symbol asked
LtpResponses(asked) ==
  {f \in [Symbols -> {Null} \cup {Some(p) : p \in Prices}] :
     \A s \in Symbols \ asked : f[s] = Null}

CheckExitConditions ==
  /\ pc = "check"
  /\ monitored' = TRUE
  /\ \E db_ok \in BOOLEAN, ltp_ok \in BOOLEAN :
       LET rows == IF db_ok THEN get_open_trades(trades) ELSE <<>>
       IN IF rows = <<>> \/ ~ltp_ok
          THEN Return
          ELSE \E response \in LtpResponses(SymbolsOf(rows)) :
                 /\ pc' = "monitor"
                 /\ open_trades' = rows
                 /\ ltp_data' = response
                 /\ UNCHANGED <<open_positions_count, available_cash,
                                breakout_stocks, breakdown_stocks, entry_orders,
                                m_id, m_trade, m_reason, m_result, running>>
  /\ UNCHANGED <<ledger, today, is_market_open, exit_orders, start_count,
                 dashvars, callvars, scanvars, ticks>>

\* one pass of the loop of check_exit_conditions, up to the call of exit_trade
MonitorTrade ==
  /\ pc = "monitor"
  /\ LET trade == Head(open_trades)
         reason == IF ltp_data[trade.symbol] = Null THEN "NONE"
                   ELSE ExitDecision(trade, ValueOf(ltp_data[trade.symbol]))
     IN IF reason = "NONE"
        THEN Continue(Tail(open_trades),
                      IF ltp_data[trade.symbol] = Null THEN "no_price" ELSE "hold")
        ELSE /\ pc' = "exit_get"
             /\ m_id' = trade.id
             /\ m_reason' = reason
             /\ UNCHANGED <<open_positions_count, available_cash, breakout_stocks,
                            breakdown_stocks, entry_orders, open_trades, ltp_data,
                            m_trade, m_result, running>>
  /\ UNCHANGED <<ledger, today, is_market_open, exit_orders, start_count,
                 monitored, dashvars, callvars, scanvars, ticks>>

\* Trader.exit_trade: get_trade and the two early returns
ExitGet ==
  /\ pc = "exit_get"
  /\ \E db_ok \in BOOLEAN :
       LET trade == IF db_ok THEN get_trade(trades, m_id) ELSE Null
       IN IF trade = Null \/ ValueOf(trade).status # "OPEN"
          THEN Continue(Tail(open_trades),
                        IF trade = Null THEN "not_found" ELSE "not_open")
          ELSE /\ pc' = "exit_place"
               /\ m_trade' = trade
               /\ UNCHANGED <<open_positions_count, available_cash,
                              breakout_stocks, breakdown_stocks, entry_orders,
                              open_trades, ltp_data, m_id, m_reason, m_result,
                              running>>
  /\ UNCHANGED <<ledger, today, is_market_open, exit_orders, start_count,
                 monitored, dashvars, callvars, scanvars, ticks>>

\* how Database.update_trade can end: both writes done, the UPDATE failed, or
\* the UPDATE committed and update_daily_summary failed
WriteOutcomes == {"ok", "update_failed", "summary_failed"}

\* variant: the close is written before the order is placed, so a failed
\* order leaves the record written
PlaceExit_WritesFirst(trade, exit_reason, ok) ==
  \/ /\ ~ok
     /\ UNCHANGED exit_orders
     /\ \E current_price \in Prices :
          LET written == update_trade(trades, daily_summary, today, trade.id,
                                      current_price, exit_reason,
                                      Pnl(trade, current_price), "ok")
          IN /\ trades' = written[1]
             /\ daily_summary' = written[2]
  \/ /\ exit_orders[trade.id] < MaxExitOrders
     /\ exit_orders' = [exit_orders EXCEPT ![trade.id] = @ + 1]
     /\ \/ /\ ~ok
           /\ UNCHANGED <<trades, daily_summary>>
        \/ /\ ok
           /\ \E current_price \in Prices, outcome \in WriteOutcomes :
                LET written == update_trade(trades, daily_summary, today, trade.id,
                                            current_price, exit_reason,
                                            Pnl(trade, current_price), outcome)
                IN /\ trades' = written[1]
                   /\ daily_summary' = written[2]

\* the exit order, the price and the ledger write of a close of `trade`
\* (Trader.exit_trade lines 100-140, dashboard exit_trade lines 129-165), `ok`
\* being what the enclosing exit_trade returns:
\* place_order raises; or the order is placed and kite.ltp raises; or the
\* order is placed, the price fetched and update_trade called (its own result
\* is not read)
PlaceExit(trade, exit_reason, ok) ==
  \/ /\ ~ok
     /\ UNCHANGED <<trades, daily_summary, exit_orders>>
  \/ /\ exit_orders[trade.id] < MaxExitOrders
     /\ exit_orders' = [exit_orders EXCEPT ![trade.id] = @ + 1]
     /\ \/ /\ ~ok
           /\ UNCHANGED <<trades, daily_summary>>
        \/ /\ ok
           /\ \E current_price \in Prices, outcome \in WriteOutcomes :
                LET written == update_trade(trades, daily_summary, today, trade.id,
                                            current_price, exit_reason,
                                            Pnl(trade, current_price), outcome)
                IN /\ trades' = written[1]
                   /\ daily_summary' = written[2]

\* Trader.exit_trade from place_order to its return
ExitPlace ==
  /\ pc = "exit_place"
  /\ \E ok \in BOOLEAN :
       /\ PlaceExit(ValueOf(m_trade), m_reason, ok)
       /\ Continue(Tail(open_trades), IF ok THEN "closed" ELSE "error")
  /\ UNCHANGED <<today, is_market_open, start_count, monitored, dashvars,
                 callvars, scanvars, ticks>>

\* ---- dashboard: the Active Trades page and its exit_trade ----------------
\* the dashboard holds a session (ACCESS_TOKEN is set)
DashboardKite == TRUE

\* the page lists get_open_trades() and the user clicks one Exit button
ManualClick ==
  /\ dpc = "idle"
  /\ DashboardKite
  /\ \E i \in DOMAIN get_open_trades(trades) :
       d_id' = get_open_trades(trades)[i].id
  /\ dpc' = "get"
  /\ UNCHANGED <<ledger, today, is_market_open, exit_orders, tickvars, d_trade,
                 callvars, scanvars>>

\* exit_trade: get_trade and the not-found return; the status is not read
ManualGet ==
  /\ dpc = "get"
  /\ \E db_ok \in BOOLEAN :
       LET trade == IF db_ok THEN get_trade(trades, d_id) ELSE Null
       IN IF trade = Null
          THEN /\ dpc' = "idle"
               /\ d_id' = 0
               /\ d_trade' = Null
          ELSE /\ dpc' = "place"
               /\ d_trade' = trade
               /\ d_id' = d_id
  /\ UNCHANGED <<ledger, today, is_market_open, exit_orders, tickvars,
                 callvars, scanvars>>

\* exit_trade from place_order to its return
ManualPlace ==
  /\ dpc = "place"
  /\ \E ok \in BOOLEAN : PlaceExit(ValueOf(d_trade), "MANUAL", ok)
  /\ dpc' = "idle"
  /\ d_id' = 0
  /\ d_trade' = Null
  /\ UNCHANGED <<today, is_market_open, tickvars, callvars, scanvars>>

Next ==
  \/ TickStart
  \/ EnterBreakout
  \/ EnterBreakdown
  \/ CheckExitConditions
  \/ MonitorTrade
  \/ ExitGet
  \/ ExitPlace
  \/ ManualClick
  \/ ManualGet
  \/ ManualPlace

Spec == Init /\ [][Next]_vars

OpenTradeIn(ts) == \E i \in DOMAIN ts : ts[i].status = "OPEN"

\* ---- the exit monitor over a ledger of several open positions -------------
\* the quantity scan_and_trade passes for a candidate
SizedQuantity(trade_type, cash, close) ==
  IF trade_type = "BUY" THEN Quantity(cash, BreakoutPermille, close)
  ELSE Quantity(cash, BreakdownPermille, close)

\* the ledgers that n accepted and recorded entries leave
RECURSIVE OpenLedgers(_)
OpenLedgers(n) ==
  IF n = 0 THEN {<<>>}
  ELSE {execute_trade(ts, c.symbol, trade_type,
                      SizedQuantity(trade_type, cash, c.close), c.close,
                      TakeProfitPct, StopLossPct, "ok") :
          ts \in OpenLedgers(n - 1), c \in Candidate,
          trade_type \in {"BUY", "SELL"}, cash \in Cash}

InitMonitor ==
  \E ts \in OpenLedgers(MaxLedger) : InitState(ts, MaxLedger, <<>>, NoBars)

\* a tick in market hours, below the cap, whose two scans find nothing: it
\* goes straight to check_exit_conditions
QuietTick ==
  /\ scan_and_trade({TRUE}, {TRUE}, {200000}, {MaxPositions - 2}, {<<>>})
  /\ UNCHANGED ticks

NextMonitor ==
  \/ QuietTick
  \/ CheckExitConditions
  \/ MonitorTrade
  \/ ExitGet
  \/ ExitPlace

MonitorSpec == InitMonitor /\ [][NextMonitor]_vars

\* ---- the exit monitor when nothing fails and every price is beyond a
\* ---- threshold ------------------------------------------------------------
\* the price the gateway reports for `trade` triggers an exit
Triggers(trade, prices) ==
  /\ prices[trade.symbol] # Null
  /\ ExitDecision(trade, ValueOf(prices[trade.symbol])) # "NONE"

\* a tick in market hours whose snapshot succeeds, whatever count the broker
\* reports, and whose scans find nothing
SteadyTick ==
  /\ scan_and_trade({TRUE}, {TRUE}, {200000},
                    (MaxPositions - 1)..(MaxPositions + 1), {<<>>})
  /\ UNCHANGED ticks

\* check_exit_conditions: get_open_trades and kite.ltp succeed and the
\* response holds, for every open trade, a price that triggers its exit
SteadyCheck ==
  /\ CheckExitConditions
  /\ OpenTradeIn(trades) => pc' = "monitor"
  /\ \A j \in DOMAIN open_trades' : Triggers(open_trades'[j], ltp_data')

\* exit_trade: get_trade succeeds
SteadyExitGet ==
  /\ ExitGet
  /\ (\E i \in DOMAIN trades : trades[i].id = m_id /\ trades[i].status = "OPEN")
       => pc' = "exit_place"

\* exit_trade: place_order, kite.ltp and update_trade succeed
SteadyExitPlace ==
  /\ ExitPlace
  /\ exit_orders'[m_id] = exit_orders[m_id] + 1
  /\ \E i \in DOMAIN trades' : trades'[i].id = m_id /\ trades'[i].status = "CLOSED"
  /\ daily_summary'[today] # Null

NextSteady ==
  \/ SteadyTick
  \/ SteadyCheck
  \/ MonitorTrade
  \/ SteadyExitGet
  \/ SteadyExitPlace

SteadySpec == InitMonitor /\ [][NextSteady]_vars

\* the scheduler keeps submitting the job and the job's thread keeps running
FairSteadySpec == SteadySpec /\ WF_vars(NextSteady)

\* ---- the same signal on consecutive ticks ----------------------------------
\* the ledger holds one trade more than the cap on open positions
LedgerRoom == MaxPositions + 1

\* the signed quantity the broker holds in `symbol` for the trades of the
\* ledger: an entry adds to it, an accepted exit order takes it away again
RECURSIVE NetQuantity(_, _, _)
NetQuantity(ts, orders, symbol) ==
  IF ts = <<>> THEN 0
  ELSE LET t == Head(ts)
           held == IF t.symbol # symbol \/ orders[t.id] > 0 THEN 0
                   ELSE IF t.trade_type = "BUY" THEN t.quantity
                   ELSE 0 - t.quantity
       IN held + NetQuantity(Tail(ts), orders, symbol)

\* len([p for p in positions if p["quantity"] != 0]): the broker's net
\* positions hold one entry per instrument
positions_count(ts, orders) ==
  Cardinality({s \in Symbols : NetQuantity(ts, orders, s) # 0})

\* what the scans return while the breakout signal of A persists
RepeatLists == {<<>>, <<[symbol |-> "A", close |-> 100]>>}

\* a tick in market hours whose snapshot succeeds and reports the positions
\* the broker holds for the ledger; the breakout scan finds A or nothing, the
\* breakdown scan nothing
RepeatTick ==
  /\ scan_and_trade({TRUE}, {TRUE}, {200000},
                    {positions_count(trades, exit_orders)}, RepeatLists)
  /\ breakdown_stocks' = <<>>
  /\ UNCHANGED ticks

\* the entry order is accepted and recorded
RepeatEnter ==
  /\ EnterBreakout
  /\ Len(trades') = Len(trades) + 1

\* check_exit_conditions succeeds; the price of A is the entry price or the
\* take-profit price
RepeatCheck ==
  /\ CheckExitConditions
  /\ OpenTradeIn(trades) => pc' = "monitor"
  /\ pc' = "monitor" => ltp_data'["A"] \in {Some(100), Some(103)}

\* exit_trade succeeds and records the take-profit price
RepeatExitPlace ==
  /\ SteadyExitPlace
  /\ \A i \in DOMAIN trades' :
       trades'[i].id = m_id => trades'[i].exit_price = Some(103)

InitRepeat == InitState(<<>>, LedgerRoom, <<>>, NoBars)

NextRepeat ==
  \/ RepeatTick
  \/ RepeatEnter
  \/ RepeatCheck
  \/ MonitorTrade
  \/ SteadyExitGet
  \/ RepeatExitPlace

RepeatSpec == InitRepeat /\ [][NextRepeat]_vars

\* ---- direct calls of the Trader and of the dashboard's exit_trade, one call
\* ---- at a time ------------------------------------------------------------
\* what execute_trade returns: False when place_order raised, True otherwise
\* (the result of insert_trade is not read)
execute_trade_returns(outcome) == outcome # "rejected"

CallQuantities == {10}
CallPrices == {100, 200}
CallReasons == {"TARGET", "STOPLOSS"}
\* the ids a caller may pass: those of the ledger and one that is unknown
CallIds == 1..(MaxLedger + 1)

ExecuteTradeCall ==
  /\ returned = Null
  /\ dpc = "idle"
  /\ \E symbol \in {"A"}, trade_type \in {"BUY", "SELL"},
        quantity \in CallQuantities, price \in CallPrices,
        outcome \in EntryOutcomes :
       /\ outcome = "ok" => Len(trades) < MaxLedger
       /\ trades' = execute_trade(trades, symbol, trade_type, quantity, price,
                                  TakeProfitPct, StopLossPct, outcome)
       /\ returned' = Some([op |-> "execute_trade", arg |-> 0,
                            value |-> execute_trade_returns(outcome)])
  /\ UNCHANGED <<daily_summary, today, is_market_open, exit_orders, tickvars,
                 dashvars, scanvars>>

\* Trader.exit_trade(trade_id, exit_reason), from the call to its return
ExitTradeCall ==
  /\ returned = Null
  /\ dpc = "idle"
  /\ \E trade_id \in CallIds, exit_reason \in CallReasons, db_ok \in BOOLEAN :
       LET trade == IF db_ok THEN get_trade(trades, trade_id) ELSE Null
       IN IF trade = Null \/ ValueOf(trade).status # "OPEN"
          THEN /\ returned' = Some([op |-> "exit_trade", arg |-> trade_id,
                                    value |-> FALSE])
               /\ UNCHANGED <<trades, daily_summary, exit_orders>>
          ELSE \E ok \in BOOLEAN :
                 /\ PlaceExit(ValueOf(trade), exit_reason, ok)
                 /\ returned' = Some([op |-> "exit_trade", arg |-> trade_id,
                                      value |-> ok])
  /\ UNCHANGED <<today, is_market_open, tickvars, dashvars, scanvars>>

\* the caller has read the returned value
ReadResult ==
  /\ returned # Null
  /\ returned' = Null
  /\ UNCHANGED <<ledger, today, is_market_open, exit_orders, tickvars, dashvars,
                 scanvars>>

\* the dashboard's exit_trade(trade_id) is called
ManualCall ==
  /\ returned = Null
  /\ dpc = "idle"
  /\ DashboardKite
  /\ \E trade_id \in CallIds : d_id' = trade_id
  /\ dpc' = "get"
  /\ UNCHANGED <<ledger, today, is_market_open, exit_orders, tickvars, d_trade,
                 callvars, scanvars>>

InitTrader == InitState(<<>>, MaxLedger, <<>>, NoBars)

NextTrader ==
  \/ ExecuteTradeCall
  \/ ExitTradeCall
  \/ ReadResult
  \/ ManualCall
  \/ ManualGet
  \/ ManualPlace

TraderSpec == InitTrader /\ [][NextTrader]_vars

\* ---- the driver: the scheduler's runs of scan_and_trade, counted -----------
\* the k-th due run of the job, k <= MaxTicks, with no dashboard beside it
DriverTick ==
  /\ ticks < MaxTicks
  /\ scan_and_trade(BOOLEAN, BOOLEAN, {200000}, {MaxPositions - 1, MaxPositions},
                    CandidateLists)
  /\ ticks' = ticks + 1

InitDriver == InitState(<<>>, MaxTrades, <<>>, NoBars)

NextDriver ==
  \/ DriverTick
  \/ EnterBreakout
  \/ EnterBreakdown
  \/ CheckExitConditions
  \/ MonitorTrade
  \/ ExitGet
  \/ ExitPlace

DriverSpec == InitDriver /\ [][NextDriver]_vars

\* the interval trigger fires while the application runs, and every call the
\* scheduler thread makes returns
FairDriverSpec == DriverSpec /\ WF_vars(NextDriver)

\* ---- StockScanner.calculate_indicators -----------------------------------
\* a daily bar: low <= close <= high, the close in the middle of a range r
Bar ==
  {[high |-> c + r, low |-> c - r, close |-> c, volume |-> v] :
     c \in {2, 3}, r \in {0, 1}, v \in {1, 2}}

\* the frames get_historical_data can return: one bar short of the window,
\* exactly the window, one bar more
BarSeries ==
  UNION {[1..n -> Bar] : n \in (RollingWindow - 1)..(RollingWindow + 1)}

High(bars) == [n \in DOMAIN bars |-> bars[n].high]
Low(bars) == [n \in DOMAIN bars |-> bars[n].low]
Close(bars) == [n \in DOMAIN bars |-> bars[n].close]
Volume(bars) == [n \in DOMAIN bars |-> bars[n].volume]

Max(S) == CHOOSE x \in S : \A y \in S : y <= x
Min(S) == CHOOSE x \in S : \A y \in S : x <= y

RECURSIVE Sum(_, _, _)
Sum(col, from, to) == IF from > to THEN 0 ELSE col[from] + Sum(col, from + 1, to)

\* Series.rolling(window=w).max(), .min(), .mean(): NaN (NULL) until w
\* observations are in the window, which ends at the row itself
rolling_max(col, w) ==
  [n \in DOMAIN col |->
     IF n < w THEN Null ELSE Some(Max({col[k] : k \in (n - w + 1)..n}))]

rolling_min(col, w) ==
  [n \in DOMAIN col |->
     IF n < w THEN Null ELSE Some(Min({col[k] : k \in (n - w + 1)..n}))]

\* a mean is kept as the fraction num / den
rolling_mean(col, w) ==
  [n \in DOMAIN col |->
     IF n < w THEN Null ELSE Some([num |-> Sum(col, n - w + 1, n), den |-> w])]

\* variant: the shift is left out
shift_Missing(col) == col

\* Series.shift(1): each row gets the value of the row before it
shift(col) == [n \in DOMAIN col |-> IF n = 1 THEN Null ELSE col[n - 1]]

\* Series.diff(): NaN in the first row
diff(col) == [n \in DOMAIN col |-> IF n = 1 THEN Null ELSE Some(col[n] - col[n - 1])]

\* delta.where(delta > 0, 0) and -delta.where(delta < 0, 0): a NaN delta fails
\* the condition and becomes 0
gain(delta) ==
  [n \in DOMAIN delta |->
     IF delta[n] # Null /\ ValueOf(delta[n]) > 0 THEN ValueOf(delta[n]) ELSE 0]

loss(delta) ==
  [n \in DOMAIN delta |->
     IF delta[n] # Null /\ ValueOf(delta[n]) < 0 THEN 0 - ValueOf(delta[n]) ELSE 0]

\* rs = avg_gain / avg_loss and 100 - 100 / (1 + rs) in floating point: x / 0
\* is inf for x > 0, giving 100; 0 / 0 is NaN, giving NaN; otherwise the value
\* is 100 * gain / (gain + loss), kept as a fraction (the two means have the
\* same denominator)
rsi(avg_gain, avg_loss) ==
  IF avg_gain = Null \/ avg_loss = Null THEN Null
  ELSE LET g == ValueOf(avg_gain).num
           l == ValueOf(avg_loss).num
       IN IF l = 0
          THEN (IF g = 0 THEN Null ELSE Some([num |-> 100, den |-> 1]))
          ELSE Some([num |-> 100 * g, den |-> g + l])

\* variant: the length of the frame is not tested
calculate_indicators_NoLengthCheck(bars) ==
  IF bars = <<>> THEN <<>>
  ELSE LET high_125d == shift(rolling_max(High(bars), RollingWindow))
           low_125d == shift(rolling_min(Low(bars), RollingWindow))
           volume_sma_125 == rolling_mean(Volume(bars), RollingWindow)
           delta == diff(Close(bars))
           avg_gain == rolling_mean(gain(delta), RsiWindow)
           avg_loss == rolling_mean(loss(delta), RsiWindow)
       IN [n \in DOMAIN bars |->
             [high_125d |-> high_125d[n], low_125d |-> low_125d[n],
              volume_sma_125 |-> volume_sma_125[n],
              rsi_14 |-> rsi(avg_gain[n], avg_loss[n])]]

\* calculate_indicators(df): <<>> for None, else the new columns row by row
calculate_indicators(bars) ==
  IF bars = <<>> \/ Len(bars) < RollingWindow THEN <<>>
  ELSE LET high_125d == shift(rolling_max(High(bars), RollingWindow))
           low_125d == shift(rolling_min(Low(bars), RollingWindow))
           volume_sma_125 == rolling_mean(Volume(bars), RollingWindow)
           delta == diff(Close(bars))
           avg_gain == rolling_mean(gain(delta), RsiWindow)
           avg_loss == rolling_mean(loss(delta), RsiWindow)
       IN [n \in DOMAIN bars |->
             [high_125d |-> high_125d[n], low_125d |-> low_125d[n],
              volume_sma_125 |-> volume_sma_125[n],
              rsi_14 |-> rsi(avg_gain[n], avg_loss[n])]]

InitScanner == \E bars \in BarSeries : InitState(<<>>, MaxTrades, bars, NoBars)

\* df = self.calculate_indicators(df) in the scan of one instrument
CalculateIndicators ==
  /\ indicators = Null
  /\ indicators' = Some(calculate_indicators(df))
  /\ UNCHANGED <<ledger, today, is_market_open, exit_orders, tickvars, dashvars,
                 callvars, df, market, to_scan, found, unavailable>>

NextScanner == CalculateIndicators

ScannerSpec == InitScanner /\ [][NextScanner]_vars

\* ---- StockScanner.scan_for_breakouts and scan_for_breakdowns --------------
\* a sampled history of n daily bars: the closes stay at closes[1], the day
\* before the latest closes at closes[2] and the latest at closes[3]; the
\* volumes stay at volumes[1] and the latest is volumes[2]; high = low = close
History(n, closes, volumes) ==
  [i \in 1..n |->
     LET close == IF i = n THEN closes[3] ELSE IF i = n - 1 THEN closes[2] ELSE closes[1]
     IN [high |-> close, low |-> close, close |-> close,
         volume |-> IF i = n THEN volumes[2] ELSE volumes[1]]]

\* the histories sampled for an instrument: none, too short, exactly the
\* window, and one bar more than the window with the latest bar above, at or
\* below the window's extremes, the latest volume above, at or below its
\* average (0 included), and the RSI inside, at or outside its thresholds
Histories ==
  {History(0, <<5, 2, 6>>, <<500, 2000>>),
   History(RollingWindow - 1, <<5, 2, 6>>, <<500, 2000>>),
   History(RollingWindow, <<5, 2, 6>>, <<500, 2000>>),
   History(RollingWindow + 1, <<5, 2, 6>>, <<500, 2000>>),
   History(RollingWindow + 1, <<5, 2, 6>>, <<1000, 2000>>),
   History(RollingWindow + 1, <<5, 2, 6>>, <<500, 500>>),
   History(RollingWindow + 1, <<5, 2, 5>>, <<500, 2000>>),
   History(RollingWindow + 1, <<5, 2, 9>>, <<500, 2000>>),
   History(RollingWindow + 1, <<5, 5, 5>>, <<500, 2000>>),
   History(RollingWindow + 1, <<6, 9, 5>>, <<1000, 500>>),
   History(RollingWindow + 1, <<6, 9, 5>>, <<500, 0>>),
   History(RollingWindow + 1, <<6, 9, 6>>, <<1000, 500>>),
   History(RollingWindow + 1, <<6, 9, 2>>, <<1000, 500>>)}

RsiOverbought == 70
RsiOversold == 30

\* get_historical_data: None (here <<>>) when the call raises or the frame is empty
get_historical_data(data, fetch_ok) ==
  IF ~fetch_ok \/ data = <<>> THEN <<>> ELSE data

\* df.iloc[-1]: the latest bar with its indicator columns
iloc_last(frame, bars) ==
  LET n == Len(bars)
  IN [close |-> bars[n].close, volume |-> bars[n].volume,
      high_125d |-> frame[n].high_125d, low_125d |-> frame[n].low_125d,
      volume_sma_125 |-> frame[n].volume_sma_125, rsi_14 |-> frame[n].rsi_14]

\* variant: the close is compared with >= against the rolling high
IsBreakout_NotStrict(latest) ==
  /\ latest.high_125d # Null
  /\ latest.close >= ValueOf(latest.high_125d)
  /\ latest.volume_sma_125 # Null
  /\ latest.volume * ValueOf(latest.volume_sma_125).den
       > ValueOf(latest.volume_sma_125).num
  /\ latest.rsi_14 # Null
  /\ ValueOf(latest.rsi_14).num < RsiOverbought * ValueOf(latest.rsi_14).den

\* the condition of lines 101-103; a comparison with NaN is False
IsBreakout(latest) ==
  /\ latest.high_125d # Null
  /\ latest.close > ValueOf(latest.high_125d)
  /\ latest.volume_sma_125 # Null
  /\ latest.volume * ValueOf(latest.volume_sma_125).den
       > ValueOf(latest.volume_sma_125).num
  /\ latest.rsi_14 # Null
  /\ ValueOf(latest.rsi_14).num < RsiOverbought * ValueOf(latest.rsi_14).den

\* variant: the close and the volume are compared as in the breakout condition
IsBreakdown_SameSide(latest) ==
  /\ latest.high_125d # Null
  /\ latest.close > ValueOf(latest.high_125d)
  /\ latest.volume_sma_125 # Null
  /\ latest.volume * ValueOf(latest.volume_sma_125).den
       > ValueOf(latest.volume_sma_125).num
  /\ latest.rsi_14 # Null
  /\ ValueOf(latest.rsi_14).num > RsiOversold * ValueOf(latest.rsi_14).den

\* the condition of lines 151-153
IsBreakdown(latest) ==
  /\ latest.low_125d # Null
  /\ latest.close < ValueOf(latest.low_125d)
  /\ latest.volume_sma_125 # Null
  /\ latest.volume * ValueOf(latest.volume_sma_125).den
       < ValueOf(latest.volume_sma_125).num
  /\ latest.rsi_14 # Null
  /\ ValueOf(latest.rsi_14).num > RsiOversold * ValueOf(latest.rsi_14).den

IsCandidate(kind, latest) ==
  IF kind = "breakouts" THEN IsBreakout(latest) ELSE IsBreakdown(latest)

\* volume / volume_sma_125 for a breakout, volume_sma_125 / volume for a
\* breakdown, as a fraction; a denominator of 0 is the inf of the float division
volume_ratio(kind, latest) ==
  LET sma == ValueOf(latest.volume_sma_125)
  IN IF kind = "breakouts"
     THEN [num |-> latest.volume * sma.den, den |-> sma.num]
     ELSE [num |-> sma.num, den |-> sma.den * latest.volume]

\* the dictionary appended to the local list (the token is left out)
StockEntry(kind, symbol, latest) ==
  [symbol |-> symbol, close |-> latest.close, volume |-> latest.volume,
   rsi |-> latest.rsi_14, volume_ratio |-> volume_ratio(kind, latest)]

\* x > y for two ratios (numerators and denominators are not negative)
Greater(x, y) == x.num * y.den > y.num * x.den

\* variant: reverse=True is left out, the smallest ratio comes first
sorted_Ascending(stocks) ==
  LET rank(i) == Cardinality({j \in DOMAIN stocks :
                    \/ Greater(stocks[i].volume_ratio, stocks[j].volume_ratio)
                    \/ /\ ~Greater(stocks[j].volume_ratio, stocks[i].volume_ratio)
                       /\ j < i})
  IN [k \in DOMAIN stocks |-> stocks[CHOOSE i \in DOMAIN stocks : rank(i) = k - 1]]

\* sorted(stocks, key=volume_ratio, reverse=True): the sort is stable, equal
\* keys keep the order of the list
sorted(stocks) ==
  LET rank(i) == Cardinality({j \in DOMAIN stocks :
                    \/ Greater(stocks[j].volume_ratio, stocks[i].volume_ratio)
                    \/ /\ ~Greater(stocks[i].volume_ratio, stocks[j].volume_ratio)
                       /\ j < i})
  IN [k \in DOMAIN stocks |-> stocks[CHOOSE i \in DOMAIN stocks : rank(i) = k - 1]]

\* variant: `break` for `continue` when there is no frame
NextInstruments_BreaksOnNone(instruments, frame) ==
  IF frame = <<>> THEN <<>> ELSE Tail(instruments)

\* the for loop goes on with the next instrument, also after a `continue`
NextInstruments(instruments, frame) == Tail(instruments)

\* how the fetch and the computation for one instrument can end: both done,
\* historical_data raised (line 44), or the computation raised (line 73)
ScanOutcomes == {"ok", "fetch_failed", "compute_failed"}

ScanPc(kind) == IF kind = "breakouts" THEN "scan_breakouts" ELSE "scan_breakdowns"

\* scan_and_trade calls scan_for_breakouts (line 110)
ScanStart ==
  /\ pc = "idle"
  /\ pc' = "scan_breakouts"
  /\ to_scan' = Instruments
  /\ found' = <<>>
  /\ UNCHANGED <<ledger, today, is_market_open, exit_orders, running, start_count,
                 open_positions_count, available_cash, breakout_stocks,
                 breakdown_stocks, entry_orders, monitored, open_trades, ltp_data,
                 m_id, m_trade, m_reason, m_result, dashvars, callvars, df,
                 indicators, market, unavailable, ticks>>

\* one pass of the loop over the instruments (lines 86-118, 136-168)
ScanInstrument(kind) ==
  /\ pc = ScanPc(kind)
  /\ to_scan # <<>>
  /\ \E outcome \in ScanOutcomes :
       LET symbol == Head(to_scan)
           bars == get_historical_data(market[symbol], outcome # "fetch_failed")
           frame == IF outcome = "compute_failed" THEN <<>>
                    ELSE calculate_indicators(bars)
       IN /\ outcome = "ok" \/ Cardinality(unavailable[kind]) < MaxFailures
          /\ outcome = "compute_failed" => Len(bars) >= RollingWindow
          /\ df' = bars
          /\ indicators' = Some(frame)
          /\ unavailable' = IF outcome = "ok" THEN unavailable
                            ELSE [unavailable EXCEPT ![kind] = @ \cup {symbol}]
          /\ found' = IF frame # <<>> /\ IsCandidate(kind, iloc_last(frame, bars))
                      THEN Append(found, StockEntry(kind, symbol, iloc_last(frame, bars)))
                      ELSE found
          /\ to_scan' = NextInstruments(to_scan, frame)
  /\ UNCHANGED <<ledger, today, is_market_open, exit_orders, running, pc,
                 start_count, open_positions_count, available_cash,
                 breakout_stocks, breakdown_stocks, entry_orders, monitored,
                 open_trades, ltp_data, m_id, m_trade, m_reason, m_result,
                 dashvars, callvars, market, ticks>>

ScanBreakout == ScanInstrument("breakouts")

ScanBreakdown == ScanInstrument("breakdowns")

\* scan_for_breakouts sorts and returns (lines 120-125); scan_and_trade keeps
\* the list and calls scan_for_breakdowns (line 114)
BreakoutsReturn ==
  /\ pc = "scan_breakouts"
  /\ to_scan = <<>>
  /\ breakout_stocks' = sorted(found)
  /\ pc' = "scan_breakdowns"
  /\ to_scan' = Instruments
  /\ found' = <<>>
  /\ UNCHANGED <<ledger, today, is_market_open, exit_orders, running, start_count,
                 open_positions_count, available_cash, breakdown_stocks,
                 entry_orders, monitored, open_trades, ltp_data, m_id, m_trade,
                 m_reason, m_result, dashvars, callvars, df, indicators, market,
                 unavailable, ticks>>

\* scan_for_breakdowns sorts and returns (lines 170-175)
BreakdownsReturn ==
  /\ pc = "scan_breakdowns"
  /\ to_scan = <<>>
  /\ breakdown_stocks' = sorted(found)
  /\ pc' = "scanned"
  /\ found' = <<>>
  /\ UNCHANGED <<ledger, today, is_market_open, exit_orders, running, start_count,
                 open_positions_count, available_cash, breakout_stocks,
                 entry_orders, monitored, open_trades, ltp_data, m_id, m_trade,
                 m_reason, m_result, dashvars, callvars, df, indicators, market,
                 to_scan, unavailable, ticks>>

InitScan ==
  \E data \in [InstrumentSet -> Histories] : InitState(<<>>, MaxTrades, <<>>, data)

NextScan ==
  \/ ScanStart
  \/ ScanBreakout
  \/ BreakoutsReturn
  \/ ScanBreakdown
  \/ BreakdownsReturn

ScanSpec == InitScan /\ [][NextScan]_vars

\* ---- the date range of get_historical_data, in calendar days ---------------
\* the default of the parameter `days`
HistoryDays == 130
\* the window and the length check of calculate_indicators, unscaled
LookbackBars == 125

\* dates are day numbers, day 0 being a Monday: date.weekday()
Weekday(date) == date % 7

IsTradingDay(date) == Weekday(date) < 5

\* the dates on which a scan can run: the weekdays of forty weeks
ScanDates == {d \in HistoryDays..(HistoryDays + 279) : IsTradingDay(d)}

RECURSIVE Ascending(_)
Ascending(S) ==
  IF S = {} THEN <<>> ELSE <<Min(S)>> \o Ascending(S \ {Min(S)})

\* kite.historical_data(from_date, to_date, "day") for an instrument with a
\* bar on every trading day: the dates of the bars, oldest first
historical_data(to_date, days) ==
  Ascending({d \in (to_date - days)..to_date : IsTradingDay(d)})

\* calculate_indicators on a series of that length: None (the empty frame
\* here) below LookbackBars rows; else row n has its rolling high and low
\* defined when the shifted window of LookbackBars rows ends before it
indicator_rows(dates) ==
  IF Len(dates) < LookbackBars THEN <<>>
  ELSE [n \in DOMAIN dates |->
          [date |-> dates[n], window_defined |-> n > LookbackBars]]

\* scan_for_breakouts line 91: df = self.get_historical_data(token)
FetchHistory ==
  /\ pc = "idle"
  /\ \E to_date \in ScanDates :
       df' = historical_data(to_date, HistoryDays)
  /\ pc' = "fetched"
  /\ UNCHANGED <<ledger, today, is_market_open, exit_orders, running, ticks,
                 start_count, open_positions_count, available_cash,
                 breakout_stocks, breakdown_stocks, entry_orders, monitored,
                 open_trades, ltp_data, m_id, m_trade, m_reason, m_result,
                 dashvars, callvars, indicators, market, to_scan, found,
                 unavailable>>

\* scan_for_breakouts line 92: df = self.calculate_indicators(df)
ComputeOnHistory ==
  /\ pc = "fetched"
  /\ indicators' = Some(indicator_rows(df))
  /\ pc' = "computed"
  /\ UNCHANGED <<ledger, today, is_market_open, exit_orders, running, ticks,
                 start_count, open_positions_count, available_cash,
                 breakout_stocks, breakdown_stocks, entry_orders, monitored,
                 open_trades, ltp_data, m_id, m_trade, m_reason, m_result,
                 dashvars, callvars, df, market, to_scan, found, unavailable>>

InitHistory == InitState(<<>>, MaxTrades, <<>>, NoBars)

NextHistory == FetchHistory \/ ComputeOnHistory

HistorySpec == InitHistory /\ [][NextHistory]_vars

\* ==== properties ==========================================================

Closed(i) == trades[i].status = "CLOSED"

\* C1: under every interleaving of monitor cycles and manual closes a trade
\* goes from OPEN to CLOSED once and for all: once a record is CLOSED no
\* later step reopens it or applies a close to it again (the record stays as
\* the first close wrote it).
C1_ClosedOnce ==
  [][\A i \in DOMAIN trades : Closed(i) => trades'[i] = trades[i]]_vars

\* C2: over all monitor cycles and manual close requests, the broker receives
\* at most one opposing (exit) market order per trade, also when the price
\* fetch or the ledger write after the order fails.
C2_AtMostOneExitOrder ==
  \A i \in DOMAIN exit_orders : exit_orders[i] <= 1

\* C3: a close request that finds the trade already CLOSED is rejected: when
\* it returns, no order was placed and the record is as the first close left it.
C3_ClosedRejected ==
  [][/\ (dpc = "place" /\ ValueOf(d_trade).status = "CLOSED" /\ dpc' = "idle")
          => (trades' = trades /\ exit_orders' = exit_orders)
     /\ (pc = "exit_place" /\ ValueOf(m_trade).status = "CLOSED" /\ pc' # "exit_place")
          => (trades' = trades /\ exit_orders' = exit_orders)]_vars

\* C4: when the monitor's exit and a manual close run concurrently on one OPEN
\* trade, the status check and the write are one atomic step: a request that
\* read OPEN and finds the trade CLOSED by the other one when it writes is
\* rejected, so only one of the two closes the trade.
C4_OneCloserWins ==
  [][/\ (dpc = "place" /\ ValueOf(d_trade).status = "OPEN" /\ Closed(d_id)
           /\ dpc' = "idle") => trades'[d_id] = trades[d_id]
     /\ (pc = "exit_place" /\ ValueOf(m_trade).status = "OPEN" /\ Closed(m_id)
           /\ pc' # "exit_place") => trades'[m_id] = trades[m_id]]_vars

AtOrAboveCap == start_count # Null /\ ValueOf(start_count) >= MaxPositions

\* C5: a tick in market hours that reads an open-position count at or above
\* the cap submits no entry order and has run check_exit_conditions when it
\* returns.
C5_CapStillMonitors ==
  AtOrAboveCap => (entry_orders = <<>> /\ (pc = "idle" => monitored))

\* C6: the count read at the start of the tick plus the entry orders
\* submitted in the tick never exceeds the cap.
C6_CountPlusEntriesAtMostCap ==
  start_count # Null => ValueOf(start_count) + Len(entry_orders) <= MaxPositions

\* C6, for a start count within the cap: when the count read at the start is at most the cap, that count
\* plus the entry orders submitted in the tick never exceeds the cap; when it
\* is above the cap, no entry order is submitted.
C6_EntriesStopAtCap ==
  start_count # Null =>
    IF ValueOf(start_count) <= MaxPositions
    THEN ValueOf(start_count) + Len(entry_orders) <= MaxPositions
    ELSE entry_orders = <<>>

\* entries stopped in the middle of the breakout list because the cap was reached
C6_StoppedMidList ==
  /\ pc = "check"
  /\ breakout_stocks # <<>>
  /\ entry_orders # <<>>
  /\ ValueOf(start_count) + Len(entry_orders) = MaxPositions

AllAbsent(t) ==
  t.exit_price = Null /\ t.exit_time = Null /\ t.exit_reason = Null /\ t.pnl = Null

AllPresent(t) ==
  t.exit_price # Null /\ t.exit_time # Null /\ t.exit_reason # Null /\ t.pnl # Null

\* C7: in every reachable ledger state each trade is OPEN with exit_price,
\* exit_time, exit_reason and pnl all absent, or CLOSED with all four present.
C7_StatusMatchesExitFields ==
  \A i \in DOMAIN trades :
    /\ trades[i].status \in {"OPEN", "CLOSED"}
    /\ trades[i].status = "OPEN" <=> AllAbsent(trades[i])
    /\ trades[i].status = "CLOSED" <=> AllPresent(trades[i])

\* a trade has been closed by the monitor
C7_ClosedByMonitor ==
  \E i \in DOMAIN trades : Closed(i) /\ trades[i].exit_reason # Some("MANUAL")

\* C8: every trade in the ledger and every entry order sent to the broker has
\* quantity > 0.
C8_QuantityPositive ==
  /\ \A i \in DOMAIN trades : trades[i].quantity > 0
  /\ \A i \in DOMAIN entry_orders : entry_orders[i].quantity > 0

\* C9: after a trade is created no step changes its take_profit_price or its
\* stop_loss_price.
C9_TargetAndStopFixed ==
  [][\A i \in DOMAIN trades :
       /\ trades'[i].take_profit_price = trades[i].take_profit_price
       /\ trades'[i].stop_loss_price = trades[i].stop_loss_price]_vars

\* a manual close was written and the daily summary recomputed
C9_ClosedAndSummarised ==
  /\ \E i \in DOMAIN trades : Closed(i) /\ trades[i].exit_reason = Some("MANUAL")
  /\ daily_summary[today] # Null

\* the exit rule as the specification states it
TargetHit(t, price) ==
  \/ t.trade_type = "BUY" /\ price >= t.take_profit_price
  \/ t.trade_type = "SELL" /\ price <= t.take_profit_price

StopHit(t, price) ==
  \/ t.trade_type = "BUY" /\ price <= t.stop_loss_price
  \/ t.trade_type = "SELL" /\ price >= t.stop_loss_price

\* C10: for an open trade that has a price this cycle, check_exit_conditions
\* calls exit_trade with TARGET when the target is hit, else with STOPLOSS
\* when the stop is hit, and does not call it otherwise; one reason per trade,
\* TARGET winning when both are hit.
C10_ExitRule ==
  [][(pc = "monitor" /\ (pc' # "monitor" \/ open_trades' # open_trades)
        /\ ltp_data[Head(open_trades).symbol] # Null)
     => LET t == Head(open_trades)
            price == ValueOf(ltp_data[t.symbol])
        IN IF TargetHit(t, price)
           THEN pc' = "exit_get" /\ m_id' = t.id /\ m_reason' = "TARGET"
           ELSE IF StopHit(t, price)
           THEN pc' = "exit_get" /\ m_id' = t.id /\ m_reason' = "STOPLOSS"
           ELSE pc' # "exit_get"]_vars

\* the monitor calls exit_trade for a stop-loss of a SELL trade
C10_SellStopLoss ==
  /\ pc = "exit_get"
  /\ m_reason = "STOPLOSS"
  /\ Head(open_trades).trade_type = "SELL"
  /\ ltp_data[Head(open_trades).symbol] = Some(Head(open_trades).stop_loss_price)

\* a monitor cycle examines exactly the trades that are OPEN when it starts
CycleLoadsOpenTrades ==
  (pc = "check" /\ pc' = "monitor") => open_trades' = get_open_trades(trades)

\* C11: when exit_trade returns without the broker having accepted its exit
\* order, the trade record is as it was (OPEN, no exit field written), the daily
\* summary is unchanged, and the trade, still OPEN, is among the trades the next
\* monitor cycle examines.
C11_FailedOrderLeavesOpen ==
  [][/\ (pc = "exit_place" /\ pc' # "exit_place" /\ exit_orders' = exit_orders)
          => /\ trades' = trades
             /\ daily_summary' = daily_summary
             /\ trades'[m_id].status = "OPEN" /\ AllAbsent(trades'[m_id])
     /\ CycleLoadsOpenTrades]_vars

\* the exit order of the first trade failed; the loop is at the second trade
C11_OrderFailedTradeOpen ==
  /\ pc = "monitor"
  /\ m_result = "error"
  /\ Head(open_trades).id = 2
  /\ exit_orders[1] = 0
  /\ trades[1].status = "OPEN" /\ AllAbsent(trades[1])
  /\ daily_summary[today] = Null

\* C12: a pass of the monitor loop over a trade whose symbol has no price in
\* the batched response places no order and changes no record or summary, the
\* trade stays OPEN, the loop goes on with the remaining trades of the cycle,
\* and the next cycle loads the trade again with the OPEN trades.
C12_NoPriceSkipped ==
  [][/\ (/\ pc = "monitor"
         /\ ltp_data[Head(open_trades).symbol] = Null
         /\ (pc' # "monitor" \/ open_trades' # open_trades))
          => /\ UNCHANGED <<trades, daily_summary, exit_orders>>
             /\ trades'[Head(open_trades).id].status = "OPEN"
             /\ IF Tail(open_trades) # <<>>
                THEN pc' = "monitor" /\ open_trades' = Tail(open_trades)
                ELSE pc' = "idle"
     /\ (pc = "check" /\ pc' = "monitor")
          => \A i \in DOMAIN trades :
               trades[i].status = "OPEN"
                 => \E k \in DOMAIN open_trades' : open_trades'[k] = trades[i]]_vars

\* the first trade had no price and was skipped; the second one has a price
C12_SkippedThenNext ==
  /\ pc = "monitor"
  /\ m_result = "no_price"
  /\ Head(open_trades).id = 2
  /\ ltp_data[Head(open_trades).symbol] # Null
  /\ trades[1].status = "OPEN"
  /\ exit_orders[1] = 0

\* C17: at most one execution of scan_and_trade is in progress at any time: a
\* run that falls due while one is in progress is not started.
C17_NoOverlap ==
  running <= 1

\* a cycle that has taken its capital snapshot and submitted an order is in
\* progress
C17_CycleInProgress ==
  /\ running = 1
  /\ pc = "breakdowns"
  /\ entry_orders # <<>>

\* a direct call of `op` has just returned
Returns(op) ==
  /\ returned = Null
  /\ returned' # Null
  /\ ValueOf(returned').op = op

\* C13: execute_trade reports success only when the position has its ledger
\* record: a call that returns True has added one trade to the ledger (so a
\* failed ledger write after an accepted order is not reported as success).
C13_SuccessMeansRecorded ==
  [][(Returns("execute_trade") /\ ValueOf(returned').value)
       => Len(trades') = Len(trades) + 1]_vars

Unknown(trade_id) == \A i \in DOMAIN trades : trades[i].id # trade_id

\* C14: a close request (Trader.exit_trade or the dashboard's exit_trade) for
\* an id that is not in the ledger returns False without placing an order and
\* without creating or changing a trade record or a daily summary; the
\* dashboard's request never gets to its order.
C14_UnknownIdRejected ==
  [][/\ (Returns("exit_trade") /\ Unknown(ValueOf(returned').arg))
          => /\ ~ValueOf(returned').value
             /\ UNCHANGED <<trades, daily_summary, exit_orders>>
     /\ (dpc = "get" /\ dpc' # "get" /\ Unknown(d_id))
          => /\ dpc' = "idle"
             /\ UNCHANGED <<trades, daily_summary, exit_orders>>]_vars

\* exit_trade has returned False for an id the non-empty ledger does not hold
C14_UnknownIdReturned ==
  /\ trades # <<>>
  /\ returned # Null
  /\ ValueOf(returned).op = "exit_trade"
  /\ Unknown(ValueOf(returned).arg)
  /\ ~ValueOf(returned).value

\* C15: every trade has, for a BUY, target = entry * (1 + tp%) and stop =
\* entry * (1 - sl%), for a SELL target = entry * (1 - tp%) and stop =
\* entry * (1 + sl%); a CLOSED trade has pnl = (exit - entry) * quantity for a
\* BUY and (entry - exit) * quantity for a SELL; a BUY at 100 of quantity 10
\* has target 103 and stop 97 and, closed at 103, pnl 30.
C15_TargetStopAndPnl ==
  \A i \in DOMAIN trades :
    LET t == trades[i]
    IN /\ t.trade_type = "BUY"
            => /\ 100 * t.take_profit_price = t.entry_price * (100 + TakeProfitPct)
               /\ 100 * t.stop_loss_price = t.entry_price * (100 - StopLossPct)
       /\ t.trade_type = "SELL"
            => /\ 100 * t.take_profit_price = t.entry_price * (100 - TakeProfitPct)
               /\ 100 * t.stop_loss_price = t.entry_price * (100 + StopLossPct)
       /\ t.status = "CLOSED"
            => t.pnl = Some(IF t.trade_type = "BUY"
                            THEN (ValueOf(t.exit_price) - t.entry_price) * t.quantity
                            ELSE (t.entry_price - ValueOf(t.exit_price)) * t.quantity)
       /\ (t.trade_type = "BUY" /\ t.entry_price = 100 /\ t.quantity = 10)
            => /\ t.take_profit_price = 103
               /\ t.stop_loss_price = 97
               /\ t.exit_price = Some(103) => t.pnl = Some(30)

\* the round trip: a BUY at 100 of quantity 10 closed at its target
C15_RoundTrip ==
  \E i \in DOMAIN trades :
    /\ trades[i].trade_type = "BUY"
    /\ trades[i].entry_price = 100
    /\ trades[i].quantity = 10
    /\ trades[i].status = "CLOSED"
    /\ trades[i].exit_price = Some(103)
    /\ trades[i].exit_reason = Some("TARGET")
    /\ trades[i].pnl = Some(30)

\* the CLOSED trades whose exit date is `day`
ClosedIds(day) ==
  {i \in DOMAIN trades : trades[i].status = "CLOSED" /\ trades[i].exit_time = Some(day)}

RECURSIVE PnlOf(_)
PnlOf(ids) ==
  IF ids = {} THEN 0
  ELSE LET i == CHOOSE j \in ids : TRUE
       IN ValueOf(trades[i].pnl) + PnlOf(ids \ {i})

\* C16: every daily summary record equals the aggregation over the CLOSED
\* trades whose exit date is the record's date: their count, the count with
\* pnl > 0, the count with pnl <= 0 and the sum of their pnl.
C16_SummaryIsAggregate ==
  \A day \in DOMAIN daily_summary :
    daily_summary[day] # Null =>
      LET row == ValueOf(daily_summary[day])
          ids == ClosedIds(day)
      IN /\ row.total_trades = Cardinality(ids)
         /\ row.winning_trades = Cardinality({i \in ids : ValueOf(trades[i].pnl) > 0})
         /\ row.losing_trades = Cardinality({i \in ids : ValueOf(trades[i].pnl) <= 0})
         /\ row.winning_trades + row.losing_trades = row.total_trades
         /\ row.total_pnl = PnlOf(ids)

\* calculate_indicators has returned a frame for the bars in df
Computed == indicators # Null /\ ValueOf(indicators) # <<>>

\* the indicator columns of the latest bar (df.iloc[-1])
Latest == ValueOf(indicators)[Len(df)]

\* C18: the volume_sma_125 of the latest day is the mean of the volumes of the
\* RollingWindow days before it, the latest day's own volume left out.
C18_VolumeAverageExcludesToday ==
  (Computed /\ Len(df) > RollingWindow) =>
    LET n == Len(df)
        sma == Latest.volume_sma_125
    IN /\ sma # Null
       /\ ValueOf(sma).num * RollingWindow
            = ValueOf(sma).den * Sum(Volume(df), n - RollingWindow, n - 1)

\* C19: the rolling high (low) of day n is the maximum high (minimum low) of
\* the RollingWindow days before day n, day n's own bar left out; it is absent
\* while fewer than RollingWindow days precede day n.
C19_RollingHighLowExcludeOwnDay ==
  Computed =>
    \A n \in DOMAIN df :
      LET row == ValueOf(indicators)[n]
          before == (n - RollingWindow)..(n - 1)
      IN IF n > RollingWindow
         THEN /\ row.high_125d # Null
              /\ \E k \in before : df[k].high = ValueOf(row.high_125d)
              /\ \A k \in before : df[k].high <= ValueOf(row.high_125d)
              /\ row.low_125d # Null
              /\ \E k \in before : df[k].low = ValueOf(row.low_125d)
              /\ \A k \in before : df[k].low >= ValueOf(row.low_125d)
         ELSE row.high_125d = Null /\ row.low_125d = Null

\* the latest bar makes a new high and a new low against its window
C19_LatestOutsideWindow ==
  /\ Computed
  /\ Len(df) = RollingWindow + 1
  /\ df[Len(df)].high > ValueOf(Latest.high_125d)
  /\ df[Len(df)].low < ValueOf(Latest.low_125d)

\* C20: the rsi_14 of the latest day is a number in [0, 100], and it is 100
\* whenever none of the last RsiWindow closes is below the close before it
\* (average loss 0), flat closes included.
C20_RsiBounded ==
  Computed =>
    LET n == Len(df)
        r == Latest.rsi_14
        no_loss == \A k \in (n - RsiWindow + 1)..n : df[k].close >= df[k - 1].close
    IN /\ r # Null
       /\ 0 <= ValueOf(r).num
       /\ ValueOf(r).num <= 100 * ValueOf(r).den
       /\ no_loss => ValueOf(r).num = 100 * ValueOf(r).den

\* the list a scan has returned to scan_and_trade
BreakoutsReturned == pc \in {"scan_breakdowns", "scanned"}
BreakdownsReturned == pc = "scanned"

\* the snapshot the scan of `kind` judged instrument s by: NULL when the bars
\* could not be fetched or calculate_indicators returned None
Snapshot(kind, s) ==
  LET bars == market[s]
      frame == calculate_indicators(bars)
  IN IF s \in unavailable[kind] \/ frame = <<>> THEN Null
     ELSE Some(iloc_last(frame, bars))

Defined(x) ==
  x.high_125d # Null /\ x.low_125d # Null /\ x.volume_sma_125 # Null /\ x.rsi_14 # Null

\* the two rules as the specification states them, for a snapshot whose
\* indicators are all defined (an undefined indicator satisfies no comparison)
BreakoutRule(x) ==
  /\ x.close > ValueOf(x.high_125d)
  /\ x.volume * ValueOf(x.volume_sma_125).den > ValueOf(x.volume_sma_125).num
  /\ ValueOf(x.rsi_14).num < 70 * ValueOf(x.rsi_14).den

BreakdownRule(x) ==
  /\ x.close < ValueOf(x.low_125d)
  /\ x.volume * ValueOf(x.volume_sma_125).den < ValueOf(x.volume_sma_125).num
  /\ ValueOf(x.rsi_14).num > 30 * ValueOf(x.rsi_14).den

Qualifying(kind) ==
  {s \in InstrumentSet :
     /\ Snapshot(kind, s) # Null
     /\ Defined(ValueOf(Snapshot(kind, s)))
     /\ IF kind = "breakouts" THEN BreakoutRule(ValueOf(Snapshot(kind, s)))
        ELSE BreakdownRule(ValueOf(Snapshot(kind, s)))}

SymbolsIn(stocks) == {stocks[i].symbol : i \in DOMAIN stocks}

\* the scenario: two instruments with too few bars, one whose latest volume is
\* 2000 against an average of 1000 and which satisfies the breakout rule
Scenario(s) ==
  /\ \A o \in InstrumentSet \ {s} : Len(market[o]) < RollingWindow
  /\ s \in Qualifying("breakouts")
  /\ ValueOf(Snapshot("breakouts", s)).volume = 2000
  /\ ValueOf(Snapshot("breakouts", s)).volume_sma_125 = Some([num |-> 1000 * RollingWindow, den |-> RollingWindow])

\* C21: scan_for_breakouts returns exactly the instruments whose latest bar has
\* close > rolling high, volume > volume average and rsi < 70, and
\* scan_for_breakdowns exactly those with close < rolling low, volume < volume
\* average and rsi > 30, each once; when two of three instruments have too few
\* bars and the third qualifies with volume 2000 against an average of 1000,
\* the breakout scan returns that one candidate with volume_ratio 2.
C21_ScansReturnRuleMatches ==
  /\ BreakoutsReturned =>
       LET qualifying == Qualifying("breakouts")
       IN /\ SymbolsIn(breakout_stocks) = qualifying
          /\ Len(breakout_stocks) = Cardinality(qualifying)
          /\ \A s \in qualifying :
               Scenario(s) =>
                 /\ Len(breakout_stocks) = 1
                 /\ breakout_stocks[1].symbol = s
                 /\ breakout_stocks[1].volume_ratio.num
                      = 2 * breakout_stocks[1].volume_ratio.den
  /\ BreakdownsReturned =>
       LET qualifying == Qualifying("breakdowns")
       IN /\ SymbolsIn(breakdown_stocks) = qualifying
          /\ Len(breakdown_stocks) = Cardinality(qualifying)

\* the scenario has been scanned: one breakout candidate, no breakdown
C21_ScenarioScanned ==
  /\ pc = "scanned"
  /\ \E s \in InstrumentSet : Scenario(s)
  /\ Len(breakout_stocks) = 1
  /\ breakdown_stocks = <<>>

\* C22: over the same bars no instrument is in both the breakout list and the
\* breakdown list of a tick.
C22_ListsDisjoint ==
  BreakdownsReturned => SymbolsIn(breakout_stocks) \cap SymbolsIn(breakdown_stocks) = {}

\* both scans have returned candidates
C22_BothListsFilled ==
  /\ pc = "scanned"
  /\ breakout_stocks # <<>>
  /\ breakdown_stocks # <<>>

\* a pass of a scan's loop over the instrument at the head of to_scan
ScanPass == pc \in {"scan_breakouts", "scan_breakdowns"} /\ to_scan # <<>>

\* C23: for a frame of fewer than RollingWindow bars (an empty or missing one
\* included) calculate_indicators returns None, the pass adds no candidate and
\* raises nothing, the loop goes on with the next instrument, and neither
\* returned list holds an instrument with fewer than RollingWindow bars.
C23_ShortSeriesSkipped ==
  [][/\ (ScanPass /\ Len(df') < RollingWindow)
          => /\ indicators' = Some(<<>>)
             /\ found' = found
             /\ to_scan' = Tail(to_scan)
             /\ pc' = pc
     /\ \A s \in SymbolsIn(breakout_stocks') \cup SymbolsIn(breakdown_stocks') :
          Len(market[s]) >= RollingWindow]_vars

\* the first instrument has too few bars and was skipped, the second one was
\* then found to be a candidate
C23_SkippedThenFound ==
  /\ pc = "scan_breakouts"
  /\ market[Instruments[1]] # <<>>
  /\ Len(market[Instruments[1]]) < RollingWindow
  /\ Instruments[1] \notin unavailable["breakouts"]
  /\ SymbolsIn(found) = {Instruments[2]}

CatalogIndex(s) == CHOOSE i \in DOMAIN Instruments : Instruments[i] = s

\* volume / volume_sma_125 of x is at least that of y
SurgeAtLeast(x, y) ==
  x.volume * ValueOf(x.volume_sma_125).den * ValueOf(y.volume_sma_125).num
    >= y.volume * ValueOf(y.volume_sma_125).den * ValueOf(x.volume_sma_125).num

\* volume_sma_125 / volume of x is at least that of y (a volume of 0 gives the
\* largest ratio)
DroughtAtLeast(x, y) ==
  ValueOf(x.volume_sma_125).num * ValueOf(y.volume_sma_125).den * y.volume
    >= ValueOf(y.volume_sma_125).num * ValueOf(x.volume_sma_125).den * x.volume

\* the list is in descending order of the ratio, ties in catalog order
Ranked(kind, stocks) ==
  \A i \in DOMAIN stocks : \A j \in DOMAIN stocks :
    i < j =>
      LET x == ValueOf(Snapshot(kind, stocks[i].symbol))
          y == ValueOf(Snapshot(kind, stocks[j].symbol))
          ge == IF kind = "breakouts" THEN SurgeAtLeast(x, y) ELSE DroughtAtLeast(x, y)
          le == IF kind = "breakouts" THEN SurgeAtLeast(y, x) ELSE DroughtAtLeast(y, x)
      IN /\ ge
         /\ le => CatalogIndex(stocks[i].symbol) < CatalogIndex(stocks[j].symbol)

\* C24: the list scan_for_breakouts returns is a permutation of the qualifying
\* instruments in descending order of volume / volume average, the list of
\* scan_for_breakdowns in descending order of volume average / volume (a
\* latest volume of 0 first), instruments of equal ratio in catalog order.
C24_RankedByVolumeRatio ==
  /\ BreakoutsReturned =>
       /\ SymbolsIn(breakout_stocks) = Qualifying("breakouts")
       /\ Len(breakout_stocks) = Cardinality(SymbolsIn(breakout_stocks))
       /\ Ranked("breakouts", breakout_stocks)
  /\ BreakdownsReturned =>
       /\ SymbolsIn(breakdown_stocks) = Qualifying("breakdowns")
       /\ Len(breakdown_stocks) = Cardinality(SymbolsIn(breakdown_stocks))
       /\ Ranked("breakdowns", breakdown_stocks)

\* three breakdown candidates: the last of the catalog has a latest volume of
\* 0 and is ranked first, the other two have equal ratios
C24_ZeroVolumeFirst ==
  /\ pc = "scanned"
  /\ Len(breakdown_stocks) = 3
  /\ breakdown_stocks[1].symbol = Instruments[3]
  /\ breakdown_stocks[1].volume = 0
  /\ breakdown_stocks[2].symbol = Instruments[1]
  /\ breakdown_stocks[2].volume_ratio = breakdown_stocks[3].volume_ratio

\* C25: a pass of a scan's loop in which the fetch or the computation fails
\* adds no candidate and leaves the loop at the next instrument, and the list
\* the scan returns holds the qualifying instruments among the others.
C25_FailureDoesNotAbortScan ==
  [][/\ (ScanPass /\ unavailable' # unavailable)
          => /\ found' = found
             /\ to_scan' = Tail(to_scan)
             /\ pc' = pc
     /\ (pc = "scan_breakouts" /\ pc' # pc)
          => SymbolsIn(breakout_stocks') = Qualifying("breakouts")
     /\ (pc = "scan_breakdowns" /\ pc' # pc)
          => SymbolsIn(breakdown_stocks') = Qualifying("breakdowns")]_vars

\* the fetch for the second instrument, which has enough bars, failed; the
\* breakout scan has returned the first and the third
C25_OthersReturned ==
  /\ pc = "scan_breakdowns"
  /\ to_scan = Instruments
  /\ unavailable["breakouts"] = {Instruments[2]}
  /\ Len(market[Instruments[2]]) > RollingWindow
  /\ SymbolsIn(breakout_stocks) = {Instruments[1], Instruments[3]}

\* C28: for every frame of at least RollingWindow bars, exactly RollingWindow
\* included, calculate_indicators returns a frame whose latest row has the
\* rolling high, the rolling low, the volume average and the rsi all defined.
C28_WindowOfBarsSuffices ==
  (indicators # Null /\ Len(df) >= RollingWindow) =>
    /\ ValueOf(indicators) # <<>>
    /\ Defined(ValueOf(indicators)[Len(df)])

\* q is floor(capital * permille / 1000 / close)
IsFloorOfShare(q, capital, permille, close) ==
  /\ q * 1000 * close <= capital * permille
  /\ capital * permille < (q + 1) * 1000 * close

EntryRejected ==
  /\ pc \in {"breakouts", "breakdowns"}
  /\ entry_orders' # entry_orders
  /\ ~entry_orders'[Len(entry_orders')].accepted

\* C29: when the broker rejects an entry order, no trade record is created,
\* the candidate is not among those still to be entered in the tick (no second
\* order for the same symbol and side), and the loop goes on with the
\* candidates that remain in its list and then with the breakdown list.
C29_RejectedEntryAbandoned ==
  [][EntryRejected =>
       /\ trades' = trades
       /\ \A i \in DOMAIN entry_orders :
            ~(/\ entry_orders[i].symbol = entry_orders'[Len(entry_orders')].symbol
              /\ entry_orders[i].trade_type = entry_orders'[Len(entry_orders')].trade_type)
       /\ pc = "breakouts"
            => /\ breakout_stocks' = Tail(breakout_stocks)
               /\ Head(breakout_stocks).symbol \notin SymbolsOf(breakout_stocks')
               /\ Tail(breakout_stocks) # <<>> => pc' = "breakouts"
               /\ (Tail(breakout_stocks) = <<>> /\ breakdown_stocks # <<>>)
                    => pc' = "breakdowns"
       /\ pc = "breakdowns"
            => /\ breakdown_stocks' = Tail(breakdown_stocks)
               /\ Head(breakdown_stocks).symbol \notin SymbolsOf(breakdown_stocks')
               /\ Tail(breakdown_stocks) # <<>> => pc' = "breakdowns"]_vars

\* the tick that has just returned failed while reading the account: the
\* market is open and no position count was read
SnapshotFailed ==
  pc = "idle" /\ ticks > 0 /\ is_market_open /\ start_count = Null

\* C27: whatever fails in a tick (the account snapshot, an entry, the price
\* fetch, an exit, a ledger read or write), the tick ends and the next due run
\* of scan_and_trade is made: run n is always followed by run n + 1.
C27_LaterTicksRun ==
  \A n \in 0..(MaxTicks - 1) : (ticks = n) ~> (ticks = n + 1)

\* a tick has failed on its snapshot and a run is still due
C27_FailedTickBehind ==
  SnapshotFailed /\ ticks < MaxTicks

\* C30: is_market_open after check_market_status equals the result of the
\* window-and-weekday test and changes only in a tick whose test differs from
\* it; a tick that finds the market closed returns at once: no scan, no entry
\* order, no exit order, no call of check_exit_conditions, no ledger write.
C30_ClosedTickDoesNothing ==
  [][/\ \A was_open \in BOOLEAN, in_window \in BOOLEAN :
          /\ check_market_status(was_open, in_window) = in_window
          /\ check_market_status(was_open, in_window) # was_open
               => in_window # was_open
     /\ is_market_open' # is_market_open => ticks' # ticks
     /\ (ticks' # ticks /\ ~is_market_open')
          => /\ pc' = "idle"
             /\ running' = running
             /\ breakout_stocks' = <<>> /\ breakdown_stocks' = <<>>
             /\ entry_orders' = <<>>
             /\ exit_orders' = exit_orders
             /\ ~monitored'
             /\ UNCHANGED <<trades, daily_summary>>]_vars

\* the market has closed over an open position: the second tick found it
\* closed and left the position alone
C30_ClosedOverOpenPosition ==
  /\ pc = "idle"
  /\ ticks = 2
  /\ ~is_market_open
  /\ trades # <<>>
  /\ trades[1].status = "OPEN"
  /\ exit_orders[1] = 0

\* C31: with auto_close_at_market_close enabled, once a tick has found the
\* market closed and has returned, no trade is OPEN in the ledger: the trades
\* that were OPEN at the closing edge have been closed.
C31_NoOpenTradeAfterClose ==
  (auto_close_at_market_close /\ pc = "idle" /\ ticks > 0 /\ ~is_market_open)
    => ~OpenTradeIn(trades)

\* scan_and_trade returns in this step, having found the market open
TickReturns ==
  /\ pc' = "idle"
  /\ pc # "idle" \/ ticks' # ticks
  /\ is_market_open'

\* C32: every tick in market hours has called check_exit_conditions when it
\* returns, also when its snapshot, a scan or an entry failed, and the call
\* examines every trade that is OPEN in the ledger at that moment, the ones
\* entered earlier in the tick included.
C32_EveryOpenTickMonitors ==
  [][/\ TickReturns => monitored'
     /\ (pc = "check" /\ pc' = "monitor")
          => \A i \in DOMAIN trades :
               trades[i].status = "OPEN"
                 => \E j \in DOMAIN open_trades' : open_trades'[j] = trades[i]]_vars

\* C33: in market hours, with ticks that keep firing, gateway calls and
\* ledger writes that succeed and prices that every monitor pass finds at or
\* beyond a threshold, an OPEN trade is eventually CLOSED, whatever count the
\* broker reports.
C33_TriggeredTradeEventuallyClosed ==
  \A i \in 1..MaxLedger :
    (Len(trades) >= i /\ trades[i].status = "OPEN")
      ~> (Len(trades) >= i /\ trades[i].status = "CLOSED")

OpenCount(ts) == Cardinality({i \in DOMAIN ts : ts[i].status = "OPEN"})

\* C34: the ledger never holds more OPEN trades than the maximum number of
\* open positions.
C34_OpenTradesAtMostCap ==
  OpenCount(trades) <= MaxPositions

\* C35: the ledger never holds two OPEN trades on one symbol.
C35_OneOpenTradePerSymbol ==
  \A i \in DOMAIN trades, j \in DOMAIN trades :
    (trades[i].status = "OPEN" /\ trades[j].status = "OPEN"
       /\ trades[i].symbol = trades[j].symbol) => i = j

\* C36: a trade closed with reason TARGET has an exit price at or beyond its
\* take-profit price and pnl >= 0; a trade closed with reason STOPLOSS has an
\* exit price at or beyond its stop-loss price and pnl <= 0.
C36_ExitPriceMatchesReason ==
  \A i \in DOMAIN trades :
    LET t == trades[i]
    IN /\ (t.status = "CLOSED" /\ t.exit_reason = Some("TARGET"))
            => (TargetHit(t, ValueOf(t.exit_price)) /\ ValueOf(t.pnl) >= 0)
       /\ (t.status = "CLOSED" /\ t.exit_reason = Some("STOPLOSS"))
            => (StopHit(t, ValueOf(t.exit_price)) /\ ValueOf(t.pnl) <= 0)

\* C37: the series fetched with the default date range, for an instrument
\* with a bar on every trading day, gives a frame whose latest row has its
\* rolling high and low defined.
C37_DefaultRangeSuffices ==
  pc = "computed"
    => /\ ValueOf(indicators) # <<>>
       /\ ValueOf(indicators)[Len(df)].window_defined

====
